---------------------------- MODULE Spec2Model ----------------------------
(***************************************************************************)
(* A model of the three programs of the repository:                       *)
(*   - snake_ladder.py / streamlit_app.py: the two-player board game and   *)
(*     the buttons that drive it;                                          *)
(*   - fake_news_backend.py: FakeNewsService, its methods called directly  *)
(*     (SpecUnits) and its process() pipeline stepped statement by         *)
(*     statement (Spec).                                                   *)
(*                                                                         *)
(* Text is a sequence of one-character strings.  The three CJK sentence    *)
(* terminators of the source are written as the ASCII tokens "cjk." "cjk!" *)
(* "cjk?" (one character each).  A float score s is the integer            *)
(* s * ScoreScale, so 0.6 is 600 and 0.5 is 500.                           *)
(***************************************************************************)
EXTENDS Integers, Sequences, FiniteSets, TLC

VARIABLES
    \* SnakeLadderGame and the streamlit session
    positions,       \* self.positions, indexed by player 0, 1
    current_player,  \* self.current_player
    winner,          \* self.winner (NoWinner is None)
    \* the last operation invoked on either program, with its arguments
    call,
    \* FakeNewsService and its collaborators
    tokenizer,       \* self.trans_tokenizer: [src_lang]
    fields,          \* the service's own attributes set by __init__
    calls,           \* collaborator invocations of the running/last call
    pc,              \* position inside process()
    loc,             \* the locals of process()
    trace,           \* stages entered by the running/last process() call
    result           \* what the last process() call returned

vars == <<positions, current_player, winner, call, tokenizer, fields, calls,
          pc, loc, trace, result>>

gameVars == <<positions, current_player, winner>>
serviceVars == <<tokenizer, fields, calls, pc, loc, trace, result>>

---------------------------------------------------------------------------
(* Bounds of the model *)

MaxTextLen == 5      \* longest text handed to a method called directly
MaxArticleLen == 2   \* longest article handed to process()
MaxTranslateLen == 3 \* longest text handed to translate_to_english directly
MaxSentences == 3    \* longest sentence list handed to classify_sentences
MaxCap == 3          \* largest max_sentences handed to classify_sentences

---------------------------------------------------------------------------
(* Text *)

Whitespace == {" ", "\n", "\t"}
LatinTerminators == {".", "!", "?"}
CjkTerminators == {"cjk.", "cjk!", "cjk?"}
Terminators == LatinTerminators \cup CjkTerminators

\* The characters the bounded texts are drawn from.
Alphabet == {"a", " ", ".", "cjk."}

TextsUpTo(n) == UNION {[1..k -> Alphabet] : k \in 0..n}

\* Python's None, where a str is expected.
None == <<"None">>

RECURSIVE LStrip(_)
LStrip(s) ==
    IF s = <<>> THEN <<>>
    ELSE IF Head(s) \in Whitespace THEN LStrip(Tail(s)) ELSE s

RECURSIVE RStrip(_)
RStrip(s) ==
    IF s = <<>> THEN <<>>
    ELSE IF s[Len(s)] \in Whitespace THEN RStrip(SubSeq(s, 1, Len(s) - 1)) ELSE s

\* str.strip()
Strip(s) == RStrip(LStrip(s))

\* str.startswith(prefix)
StartsWith(s, prefix) ==
    /\ Len(s) >= Len(prefix)
    /\ SubSeq(s, 1, Len(prefix)) = prefix

---------------------------------------------------------------------------
(* FakeNewsService.split_into_sentences *)

\* re.sub with count=1: only the first CJK terminator gets its space.
RECURSIVE SpaceAfterFirstCjk(_)
SpaceAfterFirstCjk(s) ==
    IF s = <<>> THEN <<>>
    ELSE IF Head(s) \in CjkTerminators
         THEN <<Head(s), " ">> \o Tail(s)
         ELSE <<Head(s)>> \o SpaceAfterFirstCjk(Tail(s))

\* re.sub(r"([cjk terminators])", r"\1 ", text)
RECURSIVE SpaceAfterCjk(_)
SpaceAfterCjk(s) ==
    IF s = <<>> THEN <<>>
    ELSE IF Head(s) \in CjkTerminators
         THEN <<Head(s), " ">> \o SpaceAfterCjk(Tail(s))
         ELSE <<Head(s)>> \o SpaceAfterCjk(Tail(s))

\* The first index >= i of t that holds no whitespace (Len(t) + 1 if none).
RECURSIVE SkipWhitespace(_, _)
SkipWhitespace(t, i) ==
    IF i <= Len(t) /\ t[i] \in Whitespace THEN SkipWhitespace(t, i + 1) ELSE i

\* re.split(r"(?<=[terminators])\s+", t): a match starts at i when t[i-1] is
\* a terminator and t[i] is whitespace, and takes the whole run of whitespace.
RECURSIVE SplitFrom(_, _, _, _)
SplitFrom(t, i, cur, acc) ==
    IF i > Len(t) THEN Append(acc, cur)
    ELSE IF i > 1 /\ t[i - 1] \in Terminators /\ t[i] \in Whitespace
         THEN SplitFrom(t, SkipWhitespace(t, i), <<>>, Append(acc, cur))
         ELSE SplitFrom(t, i + 1, Append(cur, t[i]), acc)

ReSplit(t) == SplitFrom(t, 1, <<>>, <<>>)

\* [s.strip() for s in parts if s.strip()]
RECURSIVE StripAndDropEmpty(_)
StripAndDropEmpty(parts) ==
    IF parts = <<>> THEN <<>>
    ELSE IF Strip(Head(parts)) = <<>>
         THEN StripAndDropEmpty(Tail(parts))
         ELSE <<Strip(Head(parts))>> \o StripAndDropEmpty(Tail(parts))

split_into_sentences(text) ==
    IF Strip(text) = <<>> THEN <<>>
    ELSE StripAndDropEmpty(ReSplit(Strip(SpaceAfterCjk(text))))

---------------------------------------------------------------------------
(* SnakeLadderGame *)

NoWinner == -1
LastSquare == 100
Dice == 1..6
Players == {0, 1}

snakes == [p \in {16, 47, 49, 56, 62, 64, 87, 93, 95, 98} |->
             CASE p = 16 -> 6   [] p = 47 -> 26 [] p = 49 -> 11 [] p = 56 -> 53
               [] p = 62 -> 19  [] p = 64 -> 60 [] p = 87 -> 24 [] p = 93 -> 73
               [] p = 95 -> 75  [] p = 98 -> 78]

ladders == [p \in {1, 4, 9, 21, 28, 36, 51, 71, 80} |->
             CASE p = 1 -> 38   [] p = 4 -> 14  [] p = 9 -> 31  [] p = 21 -> 42
               [] p = 28 -> 84  [] p = 36 -> 44 [] p = 51 -> 67 [] p = 71 -> 91
               [] p = 80 -> 100]

\* dict.get(key, default)
Get(d, key, default) == IF key \in DOMAIN d THEN d[key] ELSE default

\* self.snakes.get(pos, self.ladders.get(pos, pos))
Hop(pos) == Get(snakes, pos, Get(ladders, pos, pos))

\* Landing without the "can't move" branch.
LandingPastTheEnd(from, steps) == Hop(from + steps)

\* The square the mover ends on.
Landing(from, steps) ==
    IF from + steps > LastSquare THEN from ELSE Hop(from + steps)

\* if pos == 100: self.winner = self.current_player
WinnerAfter(pos, player) == IF pos = LastSquare THEN player ELSE NoWinner

\* self.current_player = 1 - self.current_player
NextPlayer(player) == 1 - player

GameInit ==
    /\ positions = [p \in Players |-> 0]
    /\ current_player = 0
    /\ winner = NoWinner

\* move without its first two lines: the game goes on after a win.
moveAfterWin(steps) ==
    LET pos == Landing(positions[current_player], steps) IN
    /\ positions' = [positions EXCEPT ![current_player] = pos]
    /\ winner' = WinnerAfter(pos, current_player)
    /\ current_player' = NextPlayer(current_player)

\* SnakeLadderGame.move(steps), the whole method.
move(steps) ==
    IF winner # NoWinner
    THEN UNCHANGED <<positions, current_player, winner>>
    ELSE LET pos == Landing(positions[current_player], steps) IN
         /\ positions' = [positions EXCEPT ![current_player] = pos]
         /\ winner' = WinnerAfter(pos, current_player)
         /\ current_player' = NextPlayer(current_player)

\* game.move(steps) called on the object, in any state.  call records the
\* argument and whether the method returned at its first line.
Move ==
    \E steps \in Dice :
        /\ move(steps)
        /\ call' = [op |-> "move", steps |-> steps, early |-> winner # NoWinner]
        /\ UNCHANGED serviceVars

\* The "Roll Dice" button, shown only while there is no winner:
\* roll = game.roll_dice(); session_state.last_roll = roll; game.move(roll).
\* call.steps of a "roll" is session_state.last_roll.
RollDice ==
    /\ winner = NoWinner
    /\ \E roll \in Dice :
        /\ call' = [op |-> "roll", steps |-> roll, early |-> FALSE]
        /\ move(roll)
    /\ UNCHANGED serviceVars

\* The "Restart Game" button, shown only once there is a winner:
\* a new SnakeLadderGame, and last_roll = None.
RestartGame ==
    /\ winner # NoWinner
    /\ positions' = [p \in Players |-> 0]
    /\ current_player' = 0
    /\ winner' = NoWinner
    /\ call' = [op |-> "restart"]
    /\ UNCHANGED serviceVars

---------------------------------------------------------------------------
(* Claims about the game *)

SpecialSquares == DOMAIN snakes \cup DOMAIN ladders

\* One hop from any square of the board ends on a plain square of the board.
HopsLandOnPlainSquares ==
    \A sq \in 1..LastSquare : Hop(sq) \in (1..LastSquare) \ SpecialSquares

(* C9: the win is final.  In every reachable state winner is set exactly   *)
(* when some player stands on 100, that player is the winner, at most one  *)
(* player stands on 100; and a move made once a winner is set changes      *)
(* neither positions nor current_player nor winner.                        *)
C9_WinIsFinal ==
    /\ [](/\ (winner # NoWinner) <=> (\E p \in Players : positions[p] = LastSquare)
          /\ winner # NoWinner => (winner \in Players /\ positions[winner] = LastSquare)
          /\ Cardinality({p \in Players : positions[p] = LastSquare}) <= 1)
    /\ [][(winner # NoWinner /\ call'.op = "move") => UNCHANGED gameVars]_vars

\* A move was made after the game was won.
C9_Witness ==
    /\ winner # NoWinner
    /\ positions[winner] = LastSquare
    /\ call.op = "move"
    /\ call.early

(* C10: both positions lie in 0..100 and on no snake head or ladder foot,  *)
(* one hop from any square lands on a plain square, and a move that would  *)
(* pass 100 leaves the positions as they are and passes the turn.          *)
C10_PositionInvariant ==
    /\ [](/\ \A p \in Players : positions[p] \in 0..LastSquare
          /\ \A p \in Players : positions[p] \notin SpecialSquares
          /\ HopsLandOnPlainSquares)
    /\ [][(/\ winner = NoWinner
           /\ call'.op \in {"move", "roll"}
           /\ positions[current_player] + call'.steps > LastSquare)
          => (/\ positions' = positions
              /\ current_player' = 1 - current_player
              /\ winner' = NoWinner)]_vars

\* A move that would have passed 100 was made: the mover stands where it stood.
C10_Witness ==
    /\ call.op \in {"move", "roll"}
    /\ ~call.early
    /\ winner = NoWinner
    /\ positions[1 - current_player] > LastSquare - 6
    /\ positions[1 - current_player] + call.steps > LastSquare

---------------------------------------------------------------------------
(* FakeNewsService: language codes *)

en == <<"e", "n">>
fr == <<"f", "r">>
zh == <<"z", "h">>
zh_cn == <<"z", "h", "-", "c", "n">>
zh_CN == <<"z", "h", "-", "C", "N">>
en_gb == <<"e", "n", "-", "g", "b">>
jw == <<"j", "w">>

UpperLetters == <<"A", "B", "C", "D", "E", "F", "G", "H", "I", "J", "K", "L", "M",
                  "N", "O", "P", "Q", "R", "S", "T", "U", "V", "W", "X", "Y", "Z">>
LowerLetters == <<"a", "b", "c", "d", "e", "f", "g", "h", "i", "j", "k", "l", "m",
                  "n", "o", "p", "q", "r", "s", "t", "u", "v", "w", "x", "y", "z">>

LowerChar(c) ==
    IF \E i \in DOMAIN UpperLetters : UpperLetters[i] = c
    THEN LowerLetters[CHOOSE i \in DOMAIN UpperLetters : UpperLetters[i] = c]
    ELSE c

\* str.lower()
Lower(s) == [i \in DOMAIN s |-> LowerChar(s[i])]

\* s[:n] for n >= 0
Prefix(s, n) == SubSeq(s, 1, IF n < Len(s) THEN n ELSE Len(s))

special_map ==
    [c \in {zh_cn, <<"z", "h", "-", "t", "w">>, zh, <<"p", "t", "-", "b", "r">>,
            <<"s", "r">>, jw, <<"h", "e">>, <<"i", "w">>, <<"i", "d">>,
            <<"f", "i", "l">>, <<"u", "k">>, <<"n", "o">>, <<"n", "b">>,
            <<"n", "n">>} |->
        CASE c = zh_cn -> zh
          [] c = <<"z", "h", "-", "t", "w">> -> zh
          [] c = zh -> zh
          [] c = <<"p", "t", "-", "b", "r">> -> <<"p", "t">>
          [] c = <<"s", "r">> -> <<"s", "r">>
          [] c = jw -> <<"j", "v">>
          [] c = <<"h", "e">> -> <<"h", "e">>
          [] c = <<"i", "w">> -> <<"h", "e">>
          [] c = <<"i", "d">> -> <<"i", "d">>
          [] c = <<"f", "i", "l">> -> <<"t", "l">>
          [] c = <<"u", "k">> -> <<"u", "k">>
          [] c = <<"n", "o">> -> <<"n", "o">>
          [] c = <<"n", "b">> -> <<"n", "o">>
          [] c = <<"n", "n">> -> <<"n", "o">>]

map_langdetect_to_m2m(lang_code) ==
    IF lang_code = <<>> THEN en
    ELSE IF Lower(lang_code) \in DOMAIN special_map
         THEN special_map[Lower(lang_code)]
         ELSE Prefix(Lower(lang_code), 2)

\* The codes the language detector answers with in the model.
DetectorCodes == {en, fr, zh_cn}

\* The codes translate_to_english is called with directly.
LangCodes == {<<>>, en, en_gb, fr, zh_cn, zh_CN, jw}

---------------------------------------------------------------------------
(* FakeNewsService: collaborators *)

\* What a call of a collaborator ends in: it returns value, or it raises.
Answer(value) == [raised |-> FALSE, value |-> value]
Raise == [raised |-> TRUE, value |-> <<>>]

\* What the external language detector does with a text.
DetectorOutcomes == {Answer(c) : c \in DetectorCodes} \cup {Raise}

\* What the translation model decodes to (translated[0]).
TranslationOutputs == {<<>>, <<"a">>, <<".", " ", "a">>}
TranslationOutcomes == {Answer(t) : t \in TranslationOutputs} \cup {Raise}

\* One item of the zero-shot classifier's answer: aligned labels and scores.
ZsResponse(true_score) ==
    [labels |-> <<"true", "false">>, scores |-> <<true_score, 1000 - true_score>>]

\* An answer without the label "true".
ZsNoTrueLabel == [labels |-> <<"false">>, scores |-> <<1000>>]

ZsResponses == {ZsResponse(300), ZsResponse(600), ZsNoTrueLabel}

\* What the classifier does with a batch of n texts.
BatchAnswers(n) == {Answer(rs) : rs \in [1..n -> ZsResponses]} \cup {Raise}

LowerLabel(l) ==
    CASE l = "True" -> "true" [] l = "TRUE" -> "true"
      [] l = "False" -> "false" [] l = "FALSE" -> "false"
      [] OTHER -> l

\* label_to_score.get("true", 0.0), label_to_score built by zip: a later
\* entry of the same label wins.
TrueScoreOf(res) ==
    LET hits == {i \in DOMAIN res.labels : LowerLabel(res.labels[i]) = "true"
                                             /\ i \in DOMAIN res.scores} IN
    IF hits = {} THEN 0
    ELSE res.scores[CHOOSE i \in hits : \A j \in hits : j <= i]

---------------------------------------------------------------------------
(* FakeNewsService: methods *)

Neutral == 500

\* detect_language falling back to the empty code.
detect_language_no_code(text, outcome) ==
    IF outcome.raised THEN <<>> ELSE outcome.value

\* detect_language(text): the detector's answer, "en" when it raises.
detect_language(text, outcome) == IF outcome.raised THEN en ELSE outcome.value

\* translate_to_english testing src_lang == "en" in place of the prefix.
translate_to_english_exact_en(text, src_lang, tok, outcome) ==
    IF Strip(text) = <<>>
    THEN [ret |-> <<>>, raised |-> FALSE, src_lang |-> tok, model_calls |-> 0]
    ELSE IF src_lang = en
    THEN [ret |-> text, raised |-> FALSE, src_lang |-> tok, model_calls |-> 0]
    ELSE [ret |-> IF outcome.raised THEN <<>> ELSE outcome.value,
          raised |-> outcome.raised,
          src_lang |-> map_langdetect_to_m2m(src_lang),
          model_calls |-> 1]

\* translate_to_english configuring the tokenizer whatever the language.
translate_to_english_always_configures(text, src_lang, tok, outcome) ==
    IF Strip(text) = <<>>
    THEN [ret |-> <<>>, raised |-> FALSE, src_lang |-> tok, model_calls |-> 0]
    ELSE IF StartsWith(src_lang, en)
    THEN [ret |-> text, raised |-> FALSE,
          src_lang |-> map_langdetect_to_m2m(src_lang), model_calls |-> 0]
    ELSE [ret |-> IF outcome.raised THEN <<>> ELSE outcome.value,
          raised |-> outcome.raised,
          src_lang |-> map_langdetect_to_m2m(src_lang),
          model_calls |-> 1]

\* translate_to_english(text, src_lang), the translation model answering
\* with outcome when it is asked.  tok is trans_tokenizer.src_lang on entry.
\*   ret: the return value; raised: the model's error propagates;
\*   src_lang: trans_tokenizer.src_lang on exit; model_calls: calls of
\*   trans_model.generate.
translate_to_english(text, src_lang, tok, outcome) ==
    IF Strip(text) = <<>>
    THEN [ret |-> <<>>, raised |-> FALSE, src_lang |-> tok, model_calls |-> 0]
    ELSE IF StartsWith(src_lang, en)
    THEN [ret |-> text, raised |-> FALSE, src_lang |-> tok, model_calls |-> 0]
    ELSE [ret |-> IF outcome.raised THEN <<>> ELSE outcome.value,
          raised |-> outcome.raised,
          src_lang |-> map_langdetect_to_m2m(src_lang),
          model_calls |-> 1]

\* classify_truth_score(text), the classifier answering with outcome (one
\* ZsResponse, or Raise) when it is asked.
classify_truth_score(text, outcome) ==
    IF Strip(text) = <<>>
    THEN [ret |-> Neutral, raised |-> FALSE, zs_calls |-> 0, zs_input |-> <<>>]
    ELSE [ret |-> IF outcome.raised THEN 0 ELSE TrueScoreOf(outcome.value),
          raised |-> outcome.raised,
          zs_calls |-> 1,
          zs_input |-> text]

\* A slice one element too long.
SliceToOneMore(seq, n) ==
    IF n >= 0 THEN SubSeq(seq, 1, IF n + 1 < Len(seq) THEN n + 1 ELSE Len(seq))
    ELSE IF Len(seq) + n > 0 THEN SubSeq(seq, 1, Len(seq) + n) ELSE <<>>

\* sentences[:max_sentences], Python's slice for any integer bound.
SliceTo(seq, n) ==
    IF n >= 0 THEN Prefix(seq, n)
    ELSE IF Len(seq) + n > 0 THEN Prefix(seq, Len(seq) + n) ELSE <<>>

\* sentences[k:] for k >= 0
SliceFrom(seq, k) == SubSeq(seq, k + 1, Len(seq))

\* zip(limited, results): as long as the shorter of the two.
ZipLen(a, b) == IF Len(a) < Len(b) THEN Len(a) ELSE Len(b)

\* classify_sentences(sentences, max_sentences), the classifier answering
\* the one batch with outcome (one ZsResponse per item, or Raise).
\*   batch: the list passed to the classifier.
classify_sentences(sentences, max_sentences, outcome) ==
    IF sentences = <<>>
    THEN [ret |-> <<>>, raised |-> FALSE, zs_calls |-> 0, batch |-> <<>>]
    ELSE LET limited == SliceTo(sentences, max_sentences)
             results == outcome.value
             scored == [i \in 1..ZipLen(limited, results) |->
                          [sentence |-> limited[i],
                           true_score |-> TrueScoreOf(results[i])]]
             rest == SliceFrom(sentences, Len(limited))
             neutral == [i \in 1..Len(rest) |->
                           [sentence |-> rest[i], true_score |-> Neutral]]
         IN [ret |-> IF outcome.raised THEN <<>> ELSE scored \o neutral,
             raised |-> outcome.raised,
             zs_calls |-> 1,
             batch |-> limited]

TrueThreshold == 600
FalseThreshold == 400

\* verdict_from_score with strict comparisons.
verdict_from_score_strict(true_score) ==
    IF true_score > TrueThreshold THEN <<"Likely True", "#16a34a">>
    ELSE IF true_score < FalseThreshold THEN <<"Likely False", "#dc2626">>
    ELSE <<"Uncertain", "#d97706">>

verdict_from_score(true_score) ==
    IF true_score >= TrueThreshold THEN <<"Likely True", "#16a34a">>
    ELSE IF true_score <= FalseThreshold THEN <<"Likely False", "#dc2626">>
    ELSE <<"Uncertain", "#d97706">>

sentence_bg_color(true_score) ==
    IF true_score >= 700 THEN "#bbf7d0"
    ELSE IF true_score >= TrueThreshold THEN "#dcfce7"
    ELSE IF true_score <= 300 THEN "#fecaca"
    ELSE IF true_score <= FalseThreshold THEN "#fee2e2"
    ELSE "#fef9c3"

\* int(round(true_score * 100)): Python rounds a tie to the even integer
\* (where the float product is not the exact tie, as for 0.545, the float
\* decides; no claim reads the percentage).
Percent(true_score) ==
    LET q == true_score \div 10
        r == true_score % 10
    IN IF r < 5 THEN q
       ELSE IF r > 5 THEN q + 1
       ELSE IF q % 2 = 0 THEN q ELSE q + 1

\* text.replace("&", "&amp;").replace("<", "&lt;").replace(">", "&gt;")
RECURSIVE Replace(_, _, _)
Replace(text, c, with) ==
    IF text = <<>> THEN <<>>
    ELSE (IF Head(text) = c THEN with ELSE <<Head(text)>>) \o Replace(Tail(text), c, with)

escape_html(text) ==
    Replace(Replace(Replace(text, "&", <<"&", "a", "m", "p", ";">>),
                    "<", <<"&", "l", "t", ";">>),
            ">", <<"&", "g", "t", ";">>)

\* build_highlighted_html: the markup as a sequence of elements, the <div>
\* first, one <span> per sentence score, the </div> last.
build_highlighted_html(sentence_scores) ==
    <<[tag |-> "div"]>>
    \o [i \in DOMAIN sentence_scores |->
          [tag |-> "span",
           color |-> sentence_bg_color(sentence_scores[i].true_score),
           text |-> escape_html(sentence_scores[i].sentence),
           conf |-> Percent(sentence_scores[i].true_score)]]
    \o <<[tag |-> "/div"]>>

---------------------------------------------------------------------------
(* FakeNewsService: state *)

InitSrcLang == en
DefaultMaxSentences == 40

\* The locals of process() before its first assignment; used holds the
\* argument each statement was called with.
LocInit(article_text) ==
    [article_text |-> article_text,
     lang |-> <<>>, detect_raised |-> FALSE,
     translated |-> <<>>,
     overall_score |-> 0,
     verdict |-> <<"", "">>,
     sentences |-> <<>>,
     sent_scores |-> <<>>,
     highlighted_html |-> <<>>,
     used |-> [detect |-> <<>>, translate_text |-> <<>>, translate_lang |-> <<>>,
               score |-> <<>>, zs_input |-> <<>>, verdict |-> 0, split |-> <<>>,
               classify |-> <<>>, zs_batch |-> <<>>, render |-> <<>>]]

NoCalls == [detect |-> 0, translate |-> 0, zero_shot |-> 0]

ServiceFields ==
    [translation_model_name |-> "facebook/m2m100_418M",
     candidate_labels |-> <<"true", "false">>,
     hypothesis_template |-> "This statement is {}."]

ServiceInit ==
    /\ fields = ServiceFields
    /\ calls = NoCalls
    /\ pc = "idle"
    /\ loc = LocInit(<<>>)
    /\ trace = <<>>
    /\ result = [kind |-> "none"]

---------------------------------------------------------------------------
(* FakeNewsService.process, statement by statement *)

\* The articles process() is called with.
Articles == TextsUpTo(MaxArticleLen) \cup {None}

\* article_text or ""
OrEmpty(article_text) == IF article_text = None THEN <<>> ELSE article_text

\* The record returned for an empty article, with a result of all-empty
\* fields for comparison.
AllEmptyResult ==
    [kind |-> "returned",
     detected_language |-> <<>>,
     translated_text |-> <<>>,
     overall_true_score |-> Neutral,
     verdict_label |-> "",
     verdict_color |-> "",
     highlighted_html |-> <<>>,
     sentence_scores |-> <<>>]

\* The empty result scoring 0.0.
EmptyResultZero == [AllEmptyResult EXCEPT !.overall_true_score = 0,
                                          !.verdict_color = "#6b7280"]

EmptyResult == [AllEmptyResult EXCEPT !.verdict_color = "#6b7280"]

\* The statements of process() after the empty check, in program order.
Statements ==
    <<"detect_language", "translate_to_english", "classify_truth_score",
      "verdict_from_score", "split_into_sentences", "classify_sentences",
      "build_highlighted_html", "return">>

IndexOf(stmt) == CHOOSE i \in DOMAIN Statements : Statements[i] = stmt

\* process() scoring the raw article before it translates it.
NextStatementScoreFirst(stmt) ==
    CASE stmt = "detect_language" -> "classify_truth_score"
      [] stmt = "classify_truth_score" -> "translate_to_english"
      [] stmt = "translate_to_english" -> "verdict_from_score"
      [] stmt = "return" -> "idle"
      [] OTHER -> Statements[IndexOf(stmt) + 1]

\* The statement that follows stmt; process() has no loop and no branch.
NextStatement(stmt) ==
    IF stmt = "return" THEN "idle" ELSE Statements[IndexOf(stmt) + 1]

\* The statement ran: on to the next one.
Advance ==
    /\ pc' = NextStatement(pc)
    /\ trace' = Append(trace, pc)

\* A collaborator raised inside the statement: nothing catches it, and
\* process() ends with the error.
Propagate ==
    /\ pc' = "idle"
    /\ trace' = Append(trace, pc)
    /\ result' = [kind |-> "raised", at |-> pc]

\* process(article_text), lines 194-204: trim, and return at once when
\* nothing is left.
ProcessStart ==
    /\ pc = "idle"
    /\ \E article \in Articles :
        LET article_text == Strip(OrEmpty(article)) IN
        /\ call' = [op |-> "process", phase |-> "called",
                    args |-> [article_text |-> article]]
        /\ loc' = LocInit(article_text)
        /\ calls' = NoCalls
        /\ trace' = <<>>
        /\ IF article_text = <<>>
           THEN pc' = "idle" /\ result' = EmptyResult
           ELSE pc' = Statements[1] /\ result' = [kind |-> "none"]
    /\ UNCHANGED <<gameVars, tokenizer, fields>>

\* lang = self.detect_language(article_text)
DetectStep ==
    /\ pc = "detect_language"
    /\ \E outcome \in DetectorOutcomes :
        loc' = [loc EXCEPT !.lang = detect_language(loc.article_text, outcome),
                           !.detect_raised = outcome.raised,
                           !.used.detect = loc.article_text]
    /\ calls' = [calls EXCEPT !.detect = @ + 1]
    /\ Advance
    /\ UNCHANGED <<gameVars, call, tokenizer, fields, result>>

\* translated = self.translate_to_english(article_text, lang)
TranslateStep ==
    /\ pc = "translate_to_english"
    /\ \E outcome \in TranslationOutcomes :
        LET r == translate_to_english(loc.article_text, loc.lang,
                                      tokenizer.src_lang, outcome) IN
        /\ tokenizer' = [tokenizer EXCEPT !.src_lang = r.src_lang]
        /\ calls' = [calls EXCEPT !.translate = @ + r.model_calls]
        /\ loc' = [loc EXCEPT !.translated = r.ret,
                              !.used.translate_text = loc.article_text,
                              !.used.translate_lang = loc.lang]
        /\ IF r.raised THEN Propagate ELSE Advance /\ UNCHANGED result
    /\ UNCHANGED <<gameVars, call, fields>>

\* overall_score = self.classify_truth_score(translated)
ScoreStep ==
    /\ pc = "classify_truth_score"
    /\ \E outcome \in {Answer(z) : z \in ZsResponses} \cup {Raise} :
        LET r == classify_truth_score(loc.translated, outcome) IN
        /\ calls' = [calls EXCEPT !.zero_shot = @ + r.zs_calls]
        /\ loc' = [loc EXCEPT !.overall_score = r.ret,
                              !.used.score = loc.translated,
                              !.used.zs_input = r.zs_input]
        /\ IF r.raised THEN Propagate ELSE Advance /\ UNCHANGED result
    /\ UNCHANGED <<gameVars, call, tokenizer, fields>>

\* verdict_label, verdict_color = self.verdict_from_score(overall_score)
VerdictStep ==
    /\ pc = "verdict_from_score"
    /\ loc' = [loc EXCEPT !.verdict = verdict_from_score(loc.overall_score),
                          !.used.verdict = loc.overall_score]
    /\ Advance
    /\ UNCHANGED <<gameVars, call, tokenizer, fields, calls, result>>

\* sentences = self.split_into_sentences(translated)
SplitStep ==
    /\ pc = "split_into_sentences"
    /\ loc' = [loc EXCEPT !.sentences = split_into_sentences(loc.translated),
                          !.used.split = loc.translated]
    /\ Advance
    /\ UNCHANGED <<gameVars, call, tokenizer, fields, calls, result>>

\* sent_scores = self.classify_sentences(sentences)
ClassifyStep ==
    /\ pc = "classify_sentences"
    /\ \E outcome \in BatchAnswers(Len(SliceTo(loc.sentences, DefaultMaxSentences))) :
        LET r == classify_sentences(loc.sentences, DefaultMaxSentences, outcome) IN
        /\ calls' = [calls EXCEPT !.zero_shot = @ + r.zs_calls]
        /\ loc' = [loc EXCEPT !.sent_scores = r.ret,
                              !.used.classify = loc.sentences,
                              !.used.zs_batch = r.batch]
        /\ IF r.raised THEN Propagate ELSE Advance /\ UNCHANGED result
    /\ UNCHANGED <<gameVars, call, tokenizer, fields>>

\* highlighted_html = self.build_highlighted_html(sent_scores)
RenderStep ==
    /\ pc = "build_highlighted_html"
    /\ loc' = [loc EXCEPT !.highlighted_html = build_highlighted_html(loc.sent_scores),
                          !.used.render = loc.sent_scores]
    /\ Advance
    /\ UNCHANGED <<gameVars, call, tokenizer, fields, calls, result>>

\* The dict process() returns, lines 215-225.
ResultOf(l) ==
    [kind |-> "returned",
     detected_language |-> l.lang,
     translated_text |-> l.translated,
     overall_true_score |-> l.overall_score,
     verdict_label |-> l.verdict[1],
     verdict_color |-> l.verdict[2],
     highlighted_html |-> l.highlighted_html,
     sentence_scores |-> [i \in DOMAIN l.sent_scores |->
                            [sentence |-> l.sent_scores[i].sentence,
                             true_score |-> l.sent_scores[i].true_score]]]

ReturnStep ==
    /\ pc = "return"
    /\ result' = ResultOf(loc)
    /\ Advance
    /\ UNCHANGED <<gameVars, call, tokenizer, fields, calls, loc>>

ProcessNext ==
    \/ ProcessStart
    \/ DetectStep
    \/ TranslateStep
    \/ ScoreStep
    \/ VerdictStep
    \/ SplitStep
    \/ ClassifyStep
    \/ RenderStep
    \/ ReturnStep

---------------------------------------------------------------------------
(* FakeNewsService: its methods called directly *)

Scores == 0..1000

\* The sentences the sentence lists are drawn from.
SentencePool == {<<"a", ".">>, <<"a">>}

SentenceLists == UNION {[1..k -> SentencePool] : k \in 0..MaxSentences}

Caps == -1..MaxCap


\* A method call about to be made on the service: its name and arguments.
PendingCalls ==
    {[op |-> "split_into_sentences", phase |-> "pending",
      args |-> [text |-> text]] : text \in TextsUpTo(MaxTextLen)}
    \cup {[op |-> "translate_to_english", phase |-> "pending",
           args |-> [text |-> text, src_lang |-> src_lang]] :
            text \in TextsUpTo(MaxTranslateLen), src_lang \in LangCodes}
    \cup {[op |-> "classify_sentences", phase |-> "pending",
           args |-> [sentences |-> sentences, max_sentences |-> cap]] :
            sentences \in SentenceLists, cap \in Caps}
    \cup {[op |-> "verdict_from_score", phase |-> "pending",
           args |-> [true_score |-> s]] : s \in Scores}

\* The call made and returned (or raised): out holds what came of it.
Returned(out) ==
    [op |-> call.op, phase |-> "returned", args |-> call.args, out |-> out]

\* The service as some earlier translation may have left it, and one call.
UnitsInit ==
    /\ GameInit
    /\ ServiceInit
    /\ tokenizer \in {[src_lang |-> l] : l \in {InitSrcLang, fr}}
    /\ call \in PendingCalls

CallSplit ==
    /\ call.op = "split_into_sentences" /\ call.phase = "pending"
    /\ call' = Returned([ret |-> split_into_sentences(call.args.text)])
    /\ UNCHANGED <<gameVars, serviceVars>>

CallTranslate ==
    /\ call.op = "translate_to_english" /\ call.phase = "pending"
    /\ \E outcome \in TranslationOutcomes :
        LET r == translate_to_english(call.args.text, call.args.src_lang,
                                      tokenizer.src_lang, outcome) IN
        /\ call' = Returned([ret |-> r.ret, raised |-> r.raised,
                             model_calls |-> r.model_calls,
                             src_lang_before |-> tokenizer.src_lang])
        /\ tokenizer' = [tokenizer EXCEPT !.src_lang = r.src_lang]
    /\ UNCHANGED <<gameVars, fields, calls, pc, loc, trace, result>>

CallClassifySentences ==
    /\ call.op = "classify_sentences" /\ call.phase = "pending"
    /\ \E outcome \in BatchAnswers(Len(SliceTo(call.args.sentences,
                                               call.args.max_sentences))) :
        LET r == classify_sentences(call.args.sentences,
                                    call.args.max_sentences, outcome) IN
        call' = Returned([ret |-> r.ret, raised |-> r.raised,
                          zs_calls |-> r.zs_calls, batch |-> r.batch])
    /\ UNCHANGED <<gameVars, serviceVars>>

CallVerdict ==
    /\ call.op = "verdict_from_score" /\ call.phase = "pending"
    /\ call' = Returned([ret |-> verdict_from_score(call.args.true_score)])
    /\ UNCHANGED <<gameVars, serviceVars>>

UnitsNext == CallSplit \/ CallTranslate \/ CallClassifySentences \/ CallVerdict

---------------------------------------------------------------------------
(* Claims about process() *)

\* The last process() call was given an empty, None or whitespace-only
\* article and has returned.
EmptyCallReturned ==
    /\ call.op = "process"
    /\ Strip(OrEmpty(call.args.article_text)) = <<>>
    /\ pc = "idle"

(* C1 as stated: for an empty, None or whitespace-only article process()   *)
(* returns overall_true_score 0.5 with every other field an empty string   *)
(* or an empty collection, and invokes no collaborator.                    *)
C1_Original ==
    EmptyCallReturned =>
        /\ result = AllEmptyResult
        /\ calls = NoCalls

(* C1, amended: for an empty, None or whitespace-only article process()    *)
(* returns overall_true_score 0.5, verdict_color "#6b7280" and every other *)
(* field an empty string or an empty collection; it invokes no             *)
(* collaborator and leaves the tokenizer as it was.                        *)
C1_EmptyResult ==
    /\ [](EmptyCallReturned =>
            /\ result.kind = "returned"
            /\ result.overall_true_score = 500
            /\ result.verdict_color = "#6b7280"
            /\ result.detected_language = <<>>
            /\ result.translated_text = <<>>
            /\ result.verdict_label = ""
            /\ result.highlighted_html = <<>>
            /\ result.sentence_scores = <<>>
            /\ calls = NoCalls
            /\ trace = <<>>)
    /\ [][EmptyCallReturned' => tokenizer' = tokenizer]_vars

\* A whitespace-only article was processed by a service that had translated.
C1_Witness ==
    /\ EmptyCallReturned
    /\ call.args.article_text # <<>>
    /\ call.args.article_text # None
    /\ result.kind = "returned"
    /\ tokenizer.src_lang # InitSrcLang

\* The stage of the pipeline a statement belongs to: the verdict and the
\* sentence split are steps of scoring, between its two classifier calls.
StageOf(stmt) ==
    CASE stmt = "detect_language" -> 1
      [] stmt = "translate_to_english" -> 2
      [] stmt \in {"classify_truth_score", "verdict_from_score",
                   "split_into_sentences", "classify_sentences"} -> 3
      [] stmt \in {"build_highlighted_html", "return"} -> 4

\* The statements run so far go through the stages in order, none skipped,
\* none entered again, and no statement runs twice.
StagesInOrder ==
    /\ trace # <<>> => StageOf(trace[1]) = 1
    /\ \A i \in 1..(Len(trace) - 1) :
        /\ StageOf(trace[i]) <= StageOf(trace[i + 1])
        /\ StageOf(trace[i + 1]) <= StageOf(trace[i]) + 1
    /\ \A i, j \in DOMAIN trace : trace[i] = trace[j] => i = j
    /\ pc # "idle" => \A i \in DOMAIN trace : StageOf(trace[i]) <= StageOf(pc)

Ran(stmt) == \E i \in DOMAIN trace : trace[i] = stmt

\* Each statement that has run was given what the stage before it produced.
StagesFeedEachOther ==
    /\ Ran("detect_language") => loc.used.detect = loc.article_text
    /\ Ran("translate_to_english") =>
        /\ Ran("detect_language")
        /\ loc.used.translate_text = loc.article_text
        /\ loc.used.translate_lang = loc.lang
    /\ Ran("classify_truth_score") =>
        /\ Ran("translate_to_english")
        /\ loc.used.score = loc.translated
    /\ Ran("verdict_from_score") => loc.used.verdict = loc.overall_score
    /\ Ran("split_into_sentences") => loc.used.split = loc.translated
    /\ Ran("classify_sentences") => loc.used.classify = loc.sentences
    /\ Ran("build_highlighted_html") =>
        /\ Ran("classify_sentences")
        /\ loc.used.render = loc.sent_scores

\* The last process() call was given an article with something in it and
\* has ended.
NonEmptyCallEnded ==
    /\ call.op = "process"
    /\ Strip(OrEmpty(call.args.article_text)) # <<>>
    /\ pc = "idle"

Rendered ==
    /\ result.kind = "returned"
    /\ trace = Statements
    /\ result = ResultOf(loc)

(* C2 as stated: a process() call on a non-empty article goes through      *)
(* language detection, translation, scoring and rendering in this order,   *)
(* each stage fed by the one before, none entered twice, and ends in the   *)
(* terminal Rendered state.                                                *)
C2_Original ==
    /\ StagesInOrder
    /\ StagesFeedEachOther
    /\ NonEmptyCallEnded => Rendered

(* C2, amended: the same, except that the call ends in Rendered unless the *)
(* translation model or the classifier raises; then it ends at that        *)
(* statement with the error, and no later stage is entered.                *)
C2_StagesInOrder ==
    /\ StagesInOrder
    /\ StagesFeedEachOther
    /\ NonEmptyCallEnded =>
        \/ Rendered
        \/ /\ result.kind = "raised"
           /\ result.at \in {"translate_to_english", "classify_truth_score",
                             "classify_sentences"}
           /\ trace = SubSeq(Statements, 1, IndexOf(result.at))

\* A translated article of two sentences went through all four stages.
C2_Witness ==
    /\ NonEmptyCallEnded
    /\ Rendered
    /\ calls = [detect |-> 1, translate |-> 1, zero_shot |-> 2]
    /\ Len(result.sentence_scores) = 2

(* C3 as stated: after any sequence of process() calls every mutable field *)
(* of the service and of its collaborator handles, the tokenizer's         *)
(* source-language setting included, has the value it had before the      *)
(* first call, and each call returns a freshly built result.  Read where   *)
(* a call on a non-empty article has just returned its result.             *)
C3_Original ==
    (pc = "idle" /\ result.kind = "returned" /\ loc.article_text # <<>>) =>
        /\ fields = ServiceFields
        /\ tokenizer.src_lang = InitSrcLang
        /\ result \in {EmptyResult, ResultOf(loc)}

(* C3, amended: after any sequence of process() calls the service's own    *)
(* attributes have their initial values and each call returns a result     *)
(* built from its own values; the tokenizer's source-language setting is   *)
(* the one state that survives: only a call that reaches the translation   *)
(* model changes it, to the M2M code of that article's language, and it    *)
(* keeps that value after the call.                                        *)
C3_OnlySrcLangSurvives ==
    /\ [](/\ fields = ServiceFields
          /\ (pc = "idle" /\ result.kind = "returned")
                => result \in {EmptyResult, ResultOf(loc)})
    /\ [][/\ tokenizer' # tokenizer =>
                /\ pc = "translate_to_english"
                /\ calls'.translate = calls.translate + 1
                /\ ~StartsWith(loc.lang, en)
                /\ tokenizer'.src_lang = map_langdetect_to_m2m(loc.lang)
          /\ calls'.translate > calls.translate =>
                tokenizer'.src_lang = map_langdetect_to_m2m(loc.lang)]_vars

\* An English article was processed with the tokenizer still set to "zh".
C3_Witness ==
    /\ pc = "idle"
    /\ result.kind = "returned"
    /\ loc.lang = en
    /\ loc.article_text # <<>>
    /\ tokenizer.src_lang = zh

(* C4: when the language detector raises, detect_language returns "en" and *)
(* the error does not propagate; the process() call then never calls the   *)
(* translation model, translated_text is the trimmed article, and the      *)
(* classifier is given that text.                                          *)
C4_DetectionFailsOpen ==
    /\ [](loc.detect_raised =>
            /\ loc.lang = en
            /\ calls.translate = 0
            /\ ~(result.kind = "raised" /\ result.at = "detect_language")
            /\ Ran("translate_to_english") => loc.translated = loc.article_text
            /\ Ran("classify_truth_score") =>
                /\ loc.used.score = loc.article_text
                /\ loc.used.zs_input = loc.article_text
            /\ Ran("classify_sentences") =>
                loc.used.zs_batch = split_into_sentences(loc.article_text)
            /\ result.kind = "returned" =>
                /\ result.detected_language = en
                /\ result.translated_text = loc.article_text)
    /\ [][(pc = "detect_language" /\ loc'.detect_raised)
            => (pc' = "translate_to_english" /\ tokenizer' = tokenizer)]_vars

\* The detector raised, and the call returned the article scored as it was.
C4_Witness ==
    /\ loc.detect_raised
    /\ pc = "idle"
    /\ result.kind = "returned"
    /\ result.translated_text = loc.article_text
    /\ calls = [detect |-> 1, translate |-> 0, zero_shot |-> 2]
    /\ tokenizer.src_lang # InitSrcLang

---------------------------------------------------------------------------
(* Claims about the methods *)

IsReturned(op) == call.op = op /\ call.phase = "returned"

(* C5 as stated: for every text and every source language code starting    *)
(* with "en", translate_to_english returns the text unchanged and does not  *)
(* call the translation model.                                              *)
C5_Original ==
    (IsReturned("translate_to_english") /\ StartsWith(call.args.src_lang, en))
    => (call.out.ret = call.args.text /\ call.out.model_calls = 0)

(* C5, amended: for every source language code starting with "en",         *)
(* translate_to_english does not call the translation model, does not      *)
(* raise and leaves the tokenizer as it was; it returns the text unchanged  *)
(* unless the text is whitespace-only, for which it returns "".            *)
C5_EnglishIdentity ==
    (IsReturned("translate_to_english") /\ StartsWith(call.args.src_lang, en))
    => (/\ call.out.model_calls = 0
        /\ ~call.out.raised
        /\ tokenizer.src_lang = call.out.src_lang_before
        /\ call.out.ret = (IF Strip(call.args.text) = <<>> THEN <<>>
                           ELSE call.args.text))

\* An "en-gb" text with spaces around it came back as it was.
C5_Witness ==
    /\ IsReturned("translate_to_english")
    /\ call.args.src_lang = en_gb
    /\ Strip(call.args.text) # <<>>
    /\ Strip(call.args.text) # call.args.text
    /\ call.out.ret = call.args.text

\* What classify_sentences promises for the call in call.
CapRespected ==
    LET sentences == call.args.sentences
        cap == call.args.max_sentences
        ret == call.out.ret
    IN /\ call.out.zs_calls <= 1
       /\ \A i \in DOMAIN call.out.batch : i <= cap
       /\ ~call.out.raised =>
            /\ Len(ret) = Len(sentences)
            /\ \A i \in DOMAIN ret : ret[i].sentence = sentences[i]
            /\ \A i \in DOMAIN ret : i > cap => ret[i].true_score = 500

(* C6 as stated: for every sentence sequence and every cap,               *)
(* classify_sentences passes at most cap sentences to the classifier in    *)
(* one batch, every sentence beyond the cap gets exactly 0.5, and the      *)
(* output holds one SentenceScore per input sentence in input order.       *)
C6_Original == IsReturned("classify_sentences") => CapRespected

(* C6, amended: the same for every cap >= 0.                               *)
C6_CapRespected ==
    (IsReturned("classify_sentences") /\ call.args.max_sentences >= 0)
    => CapRespected

\* More sentences than the cap: a batch of cap was scored, the last is neutral.
C6_Witness ==
    /\ IsReturned("classify_sentences")
    /\ ~call.out.raised
    /\ call.args.max_sentences >= 1
    /\ Len(call.args.sentences) > call.args.max_sentences
    /\ Len(call.out.batch) = call.args.max_sentences
    /\ call.out.ret[1].true_score = 600
    /\ call.out.ret[Len(call.out.ret)].true_score = 500

(* C7: verdict_from_score answers every score with exactly one of the      *)
(* three verdicts: Likely True (green) exactly when s >= 0.6, Likely False *)
(* (red) exactly when s <= 0.4, Uncertain (amber) exactly when             *)
(* 0.4 < s < 0.6.                                                          *)
C7_VerdictPartition ==
    IsReturned("verdict_from_score") =>
        LET s == call.args.true_score
            v == call.out.ret
        IN /\ v \in {<<"Likely True", "#16a34a">>, <<"Likely False", "#dc2626">>,
                     <<"Uncertain", "#d97706">>}
           /\ (v = <<"Likely True", "#16a34a">>) <=> (s >= 600)
           /\ (v = <<"Likely False", "#dc2626">>) <=> (s <= 400)
           /\ (v = <<"Uncertain", "#d97706">>) <=> (400 < s /\ s < 600)

\* The boundary 0.6 was judged Likely True.
C7_Witness ==
    /\ IsReturned("verdict_from_score")
    /\ call.args.true_score = 600
    /\ call.out.ret[1] = "Likely True"

\* The sentences lie in the text one after the other, from index from on.
RECURSIVE OccurInOrder(_, _, _)
OccurInOrder(sentences, text, from) ==
    IF sentences = <<>> THEN TRUE
    ELSE LET h == Head(sentences) IN
         \E p \in from..(Len(text) - Len(h) + 1) :
            /\ SubSeq(text, p, p + Len(h) - 1) = h
            /\ OccurInOrder(Tail(sentences), text, p + Len(h))

(* C8: splitting a sentence that split_into_sentences returned gives back  *)
(* that one sentence; every returned sentence is non-empty after trimming; *)
(* the sentences lie in the text in the order returned.                    *)
C8_SplitIdempotent ==
    IsReturned("split_into_sentences") =>
        LET ret == call.out.ret IN
        /\ \A i \in DOMAIN ret : split_into_sentences(ret[i]) = <<ret[i]>>
        /\ \A i \in DOMAIN ret : Strip(ret[i]) # <<>>
        /\ OccurInOrder(ret, call.args.text, 1)

\* A text cut in three, once at a CJK terminator with no space after it.
C8_Witness ==
    /\ IsReturned("split_into_sentences")
    /\ Len(call.out.ret) = 3
    /\ \E i \in 1..(Len(call.args.text) - 1) :
        /\ call.args.text[i] \in CjkTerminators
        /\ call.args.text[i + 1] \notin Whitespace

Init ==
    /\ GameInit
    /\ ServiceInit
    /\ tokenizer = [src_lang |-> InitSrcLang]
    /\ call = [op |-> "none"]

GameNext == Move \/ RollDice \/ RestartGame

SpecGame == Init /\ [][GameNext]_vars

Spec == Init /\ [][ProcessNext]_vars

SpecUnits == UnitsInit /\ [][UnitsNext]_vars

===========================================================================
